---- MODULE Spec2Model ----
(***************************************************************************)
(* ZapForm backend: account registration and form submission relayed to    *)
(* the WhatsApp Business API (src/main.py, src/database.py).               *)
(*                                                                         *)
(* A request is handled by one coroutine of one server process.  A server  *)
(* process has one event loop: a coroutine keeps the loop from the moment  *)
(* it is scheduled until it awaits something that suspends it.  The        *)
(* SQLAlchemy calls and requests.post are synchronous, so they keep the    *)
(* loop; `await aiosmtplib.send` gives it up.  Several server processes    *)
(* may share the one database.                                             *)
(***************************************************************************)
EXTENDS Integers, Sequences, FiniteSets, TLC

(* ------------------------------ bounds --------------------------------- *)
MaxReqs == 2          \* requests handled in one behaviour
NumEmails == 2        \* distinct e-mail addresses clients register with
NumKeys == 2          \* values uuid4().hex[:24] can take
MaxNameLen == 2       \* longest generated field name (formatter inputs)
MaxFields == 2        \* most fields in a formatter input mapping

Reqs == 1..MaxReqs
\* Server processes sharing the one database.  Processes are interchangeable:
\* two are enough for requests to run either in the same process or in
\* different ones, and the first request is put in the first process.
FirstProc == "web.1"
Procs == {FirstProc, "web.2"}
ProcsFor(r) == IF r = 1 THEN {FirstProc} ELSE Procs

VARIABLES
    store,      \* committed rows of table "users"
    req,        \* per request: inputs, position in its handler, locals, response
    loop,       \* per server process: the request whose coroutine holds the event loop, 0 if none
    form_data,  \* formatter input under test (FormatSpec)
    message     \* formatter output under test (FormatSpec)

vars == <<store, req, loop, form_data, message>>

(* ------------------------------ strings -------------------------------- *)
\* A field name is a sequence of one-character strings, so that str.replace
\* and str.title can be computed character by character.
ApiKeyName == <<"a", "p", "i", "_", "k", "e", "y">>
NameName == <<"n", "a", "m", "e">>
EmailName == <<"e", "m", "a", "i", "l">>
PhoneName == <<"p", "h", "o", "n", "e">>
MessageName == <<"m", "e", "s", "s", "a", "g", "e">>
BudgetName == <<"b", "u", "d", "g", "e", "t">>
CompanyName == <<"c", "o", "m", "p", "a", "n", "y">>
SubjectName == <<"s", "u", "b", "j", "e", "c", "t">>
FullName == <<"f", "u", "l", "l", "_", "n", "a", "m", "e">>

LowerLetters == <<"a", "b", "c", "d", "e", "f", "g", "h", "i", "j", "k", "l", "m",
                  "n", "o", "p", "q", "r", "s", "t", "u", "v", "w", "x", "y", "z">>
UpperLetters == <<"A", "B", "C", "D", "E", "F", "G", "H", "I", "J", "K", "L", "M",
                  "N", "O", "P", "Q", "R", "S", "T", "U", "V", "W", "X", "Y", "Z">>

IndexOf(c, s) == CHOOSE i \in 1..Len(s) : s[i] = c
InSeq(c, s) == \E i \in 1..Len(s) : s[i] = c

\* str.isupper / str.islower on one character; a cased character is a letter
IsCased(c) == InSeq(c, LowerLetters) \/ InSeq(c, UpperLetters)
\* str.upper / str.lower on one character
Upper(c) == IF InSeq(c, LowerLetters) THEN UpperLetters[IndexOf(c, LowerLetters)] ELSE c
Lower(c) == IF InSeq(c, UpperLetters) THEN LowerLetters[IndexOf(c, UpperLetters)] ELSE c

\* key.replace('_', ' ')
ReplaceUnderscores(s) == [i \in 1..Len(s) |-> IF s[i] = "_" THEN " " ELSE s[i]]

\* str.title(): scan left to right remembering whether the previous character
\* was cased; a cased character after a cased one is lowered, any other cased
\* character is uppered, an uncased character is copied.
RECURSIVE TitleFrom(_, _, _)
TitleFrom(s, i, previous_is_cased) ==
    IF i > Len(s) THEN <<>>
    ELSE IF IsCased(s[i])
         THEN <<(IF previous_is_cased THEN Lower(s[i]) ELSE Upper(s[i]))>> \o TitleFrom(s, i + 1, TRUE)
         ELSE <<s[i]>> \o TitleFrom(s, i + 1, FALSE)

Title(s) == TitleFrom(s, 1, FALSE)

(* --------------------------- message formatter ------------------------- *)
\* A mapping (Python dict) is a sequence of <<key, value>> pairs with distinct
\* keys, in insertion order.  Values are strings; None is the string NONE.
NONE == "<None>"
Truthy(v) == v # "" /\ v # NONE

Header == "New Contact Form Submission"
Footer == "_Sent via ZapForm_"

\* one emitted line: f"*{formatted_key}:* {value}\n"
Line(key, value) == [label |-> Title(ReplaceUnderscores(key)), value |-> value]

RECURSIVE FormatLines(_, _)
FormatLines(items, i) ==
    IF i > Len(items) THEN <<>>
    ELSE IF items[i][1] # ApiKeyName /\ Truthy(items[i][2])
         THEN <<Line(items[i][1], items[i][2])>> \o FormatLines(items, i + 1)
         ELSE FormatLines(items, i + 1)

FormatMessageKeepsEmpty(items) ==
    [header |-> Header,
     lines |-> [i \in 1..Len(items) |-> Line(items[i][1], items[i][2])],
     footer |-> Footer]

\* the message built by send_whatsapp_message before the provider call
FormatMessage(items) ==
    [header |-> Header, lines |-> FormatLines(items, 1), footer |-> Footer]

NoMessage == [header |-> "", lines |-> <<>>, footer |-> ""]

(* ------------------------------ the store ------------------------------ *)
\* A row of table "users".  whatsapp_token, phone_number_id and
\* recipient_number are stored and handed to the dispatcher unchanged; they
\* decide nothing below and are left out of the row.
EmailOf(i) == "u" \o ToString(i) \o "@x.com"
Emails == {EmailOf(i) : i \in 1..NumEmails}
\* f"zf_{uuid.uuid4().hex[:24]}": a random draw from the key space
KeyOf(i) == "zf_" \o ToString(i)
KeySpace == {KeyOf(i) : i \in 1..NumKeys}

Row(id, name, email, api_key, is_active) ==
    [id |-> id, name |-> name, email |-> email, api_key |-> api_key, is_active |-> is_active]

NoRow == Row(0, "", "", "", FALSE)

\* Integer primary key: the next id after the largest one in the table
NewId(rows) == IF rows = {} THEN 1 ELSE 1 + CHOOSE m \in {a.id : a \in rows} : \A a \in rows : a.id <= m

\* db.query(User).filter(User.email == email).first()
FindByEmail(rows, email) ==
    IF \E a \in rows : a.email = email
    THEN CHOOSE a \in rows : a.email = email
    ELSE NoRow

FindByApiKeyIgnoringActive(rows, key) ==
    IF \E a \in rows : a.api_key = key
    THEN CHOOSE a \in rows : a.api_key = key
    ELSE NoRow

\* db.query(User).filter(User.api_key == api_key, User.is_active == True).first()
FindActiveByApiKey(rows, key) ==
    IF \E a \in rows : a.api_key = key /\ a.is_active
    THEN CHOOSE a \in rows : a.api_key = key /\ a.is_active
    ELSE NoRow

UniqueNeverViolated(rows, email, key) == FALSE

\* unique=True on users.email and users.api_key: the INSERT of db.commit()
\* raises IntegrityError when either value is already in the table
UniqueViolated(rows, email, key) ==
    \E a \in rows : a.email = email \/ a.api_key = key

(* ------------------------------ requests ------------------------------- *)
NoUser == [id |-> 0, name |-> "", email |-> ""]
NoId == [prefix |-> "", rest |-> ""]
\* a response: HTTP status (0 = none yet), the "user" object of a registration,
\* the "whatsapp_message_id" of a submission
NoResp == [status |-> 0, user |-> NoUser, whatsapp_message_id |-> NoId]
Resp(status) == [NoResp EXCEPT !.status = status]

\* what the provider did with the POST: status 0 is a transport failure
\* (requests.post raised); body is what response.json() has to parse
NoBody == [json |-> FALSE, object |-> FALSE, has_messages |-> FALSE, is_list |-> FALSE, messages |-> <<>>]
NoOutcome == [status |-> -1, body |-> NoBody]

IdleReq ==
    [kind |-> "none", proc |-> "", pc |-> "idle",
     name |-> "", email |-> "", api_key |-> "", form_data |-> <<>>,
     row_id |-> 0, db_user |-> NoRow, user |-> NoRow, 
     sent |-> FALSE, message |-> NoMessage, outcome |-> NoOutcome,
     emailed |-> "", resp |-> NoResp]

\* requests arrive in the order of their numbers
MayArrive(r) == req[r].pc = "idle" /\ (IF r = 1 THEN TRUE ELSE req[r - 1].pc # "idle")

\* the coroutine of request r can be scheduled: its process's event loop is free
LoopFree(r) == loop[req[r].proc] = 0

\* the handler returned or raised: the response goes out and the coroutine
\* no longer holds the event loop
Finish(r, fields, resp) ==
    /\ req' = [req EXCEPT ![r] = [fields EXCEPT !.pc = "done", !.resp = resp, !.proc = "",
                                                !.name = "", !.form_data = <<>>, !.message = NoMessage,
                                                !.db_user = NoRow, !.user = NoRow]]
    /\ loop' = [loop EXCEPT ![req[r].proc] = 0]

\* the coroutine goes on to a synchronous call: it keeps the event loop
Hold(r, fields, pc) ==
    /\ req' = [req EXCEPT ![r] = [fields EXCEPT !.pc = pc]]
    /\ loop' = [loop EXCEPT ![req[r].proc] = r]

\* the coroutine awaits a call that suspends it: the event loop is free again
Await(r, fields, pc) ==
    /\ req' = [req EXCEPT ![r] = [fields EXCEPT !.pc = pc]]
    /\ loop' = [loop EXCEPT ![req[r].proc] = 0]

\* form_data.get("api_key")
RECURSIVE Get(_, _, _)
Get(items, key, i) ==
    IF i > Len(items) THEN NONE
    ELSE IF items[i][1] = key THEN items[i][2]
    ELSE Get(items, key, i + 1)

\* the API key request r was posted with
PostedKey(r) ==
    IF req[r].kind = "submit_api" THEN Get(req[r].form_data, ApiKeyName, 1) ELSE req[r].api_key

\* E-mail addresses and keys that have not occurred yet are interchangeable:
\* a new one is always the first that has not occurred.
SeenEmails == {a.email : a \in store} \cup {req[r].email : r \in Reqs}
SeenKeys == {a.api_key : a \in store} \cup {req[r].api_key : r \in Reqs} \cup {PostedKey(r) : r \in Reqs}
FirstNewEmail ==
    {EmailOf(i) : i \in {j \in 1..NumEmails :
        EmailOf(j) \notin SeenEmails /\ \A k \in 1..(j - 1) : EmailOf(k) \in SeenEmails}}
FirstNewKey ==
    {KeyOf(i) : i \in {j \in 1..NumKeys :
        KeyOf(j) \notin SeenKeys /\ \A k \in 1..(j - 1) : KeyOf(k) \in SeenKeys}}
EmailChoices == (Emails \cap SeenEmails) \cup FirstNewEmail
KeyChoices == (KeySpace \cap SeenKeys) \cup FirstNewKey

(* ---------------------------- registration ----------------------------- *)
Names == {"Ana"}

\* POST /api/register with a body that passed the UserRegistration validators
PostRegister(r) ==
    /\ MayArrive(r)
    /\ \E p \in ProcsFor(r), n \in Names, e \in EmailChoices :
          req' = [req EXCEPT ![r] = [IdleReq EXCEPT !.kind = "register", !.proc = p,
                                                    !.pc = "start", !.name = n, !.email = e]]
    /\ UNCHANGED <<store, loop, form_data, message>>

\* except Exception: db.rollback(); raise HTTPException(500).  The rollback
\* discards the pending row of the session; committed rows stay.
RegisterFails(r) ==
    /\ Finish(r, req[r], Resp(500))
    /\ UNCHANGED <<store, form_data, message>>

\* the existence check, then the key generation, the User object and
\* db.add(db_user), which leaves the row pending in the session: nothing
\* reaches the table before the commit
RegisterCheck(r) ==
    /\ req[r].kind = "register" /\ req[r].pc = "start" /\ LoopFree(r)
    /\ IF FindByEmail(store, req[r].email) # NoRow
       THEN Finish(r, req[r], Resp(400))
       ELSE \E k \in KeyChoices : Hold(r, [req[r] EXCEPT !.api_key = k], "commit")
    /\ UNCHANGED <<store, form_data, message>>

\* db.commit(): the INSERT, checked against the unique indexes, and the COMMIT
RegisterCommit(r) ==
    /\ req[r].kind = "register" /\ req[r].pc = "commit"
    /\ IF UniqueViolated(store, req[r].email, req[r].api_key)
       THEN RegisterFails(r)
       ELSE /\ store' = store \cup {Row(NewId(store), req[r].name, req[r].email, req[r].api_key, TRUE)}
            /\ Hold(r, [req[r] EXCEPT !.row_id = NewId(store)], "refresh")
            /\ UNCHANGED <<form_data, message>>

\* db.refresh(db_user), then the call of send_api_key_email, which awaits the
\* SMTP exchange
RegisterRefresh(r) ==
    /\ req[r].kind = "register" /\ req[r].pc = "refresh"
    /\ Await(r, [req[r] EXCEPT !.db_user = CHOOSE a \in store : a.id = req[r].row_id], "notify")
    /\ UNCHANGED <<store, form_data, message>>

\* {"id": db_user.id, "name": db_user.name, "email": db_user.email}
UserOf(row) == [id |-> row.id, name |-> row.name, email |-> row.email]

NotifyFailureSurfaces(r, ok) ==
    IF ok THEN [Resp(200) EXCEPT !.user = UserOf(req[r].db_user)] ELSE Resp(500)

\* the response after send_api_key_email returned ok (True or False; it
\* catches every Exception itself and its result is not looked at)
RegisterResponse(r, ok) ==
    [Resp(200) EXCEPT !.user = UserOf(req[r].db_user)]

\* send_api_key_email returns and the handler returns its response
RegisterNotified(r) ==
    /\ req[r].kind = "register" /\ req[r].pc = "notify" /\ LoopFree(r)
    /\ \E ok \in BOOLEAN :
          Finish(r, [req[r] EXCEPT !.emailed = IF ok THEN "sent" ELSE "failed"], RegisterResponse(r, ok))
    /\ UNCHANGED <<store, form_data, message>>

\* the store fails (connection lost, server error) in one of the handler's
\* database calls; whatever was committed before stays committed
RegisterCheckRaises(r) ==
    /\ req[r].kind = "register" /\ req[r].pc = "start" /\ LoopFree(r)
    /\ RegisterFails(r)

RegisterCommitRaises(r) ==
    /\ req[r].kind = "register" /\ req[r].pc = "commit"
    /\ RegisterFails(r)

RegisterRefreshRaises(r) ==
    /\ req[r].kind = "register" /\ req[r].pc = "refresh"
    /\ RegisterFails(r)

(* ------------------------------ the provider --------------------------- *)
\* message identifiers: a fixed prefix and the rest
ProviderId == [prefix |-> "wamid.", rest |-> "HBgLMTU1NTAxMDA"]
\* f"wamid.mock_{int(datetime.now().timestamp())}"
MockId == [prefix |-> "wamid.mock_", rest |-> "timestamp"]
\* f"mock_{int(datetime.now().timestamp())}"
DefaultId == [prefix |-> "mock_", rest |-> "timestamp"]

\* JSON bodies: not JSON at all; a JSON value that is no object; an object
\* without "messages"; with a "messages" that is no list (not among Bodies:
\* it raises like the empty list); with a list of objects, each with or
\* without "id"
Entry(has_id, id) == [has_id |-> has_id, id |-> id]
NotJsonBody == NoBody
NotObjectBody == [NoBody EXCEPT !.json = TRUE]
ObjectBody == [NotObjectBody EXCEPT !.object = TRUE]
MessagesNotListBody == [ObjectBody EXCEPT !.has_messages = TRUE]
MessagesBody(entries) == [MessagesNotListBody EXCEPT !.is_list = TRUE, !.messages = entries]

Bodies ==
    {NotJsonBody, NotObjectBody, ObjectBody,
     MessagesBody(<<>>), MessagesBody(<<Entry(FALSE, NoId)>>), MessagesBody(<<Entry(TRUE, ProviderId)>>)}

NonOkStatuses == {503}

\* what can come back from requests.post: an exception (status 0), an error
\* status with an error object as body, or 200 with any body
Outcomes ==
    {[status |-> 0, body |-> NoBody]}
    \cup {[status |-> s, body |-> ObjectBody] : s \in NonOkStatuses}
    \cup {[status |-> 200, body |-> b] : b \in Bodies}

\* {"messages": [{"id": f"wamid.mock_..."}]}
MockResult == MessagesBody(<<Entry(TRUE, MockId)>>)

SendWhatsappPassesErrors(outcome) == outcome.body

\* what send_whatsapp_message returns once requests.post came back with
\* outcome; it raises nothing: the whole exchange is inside try/except Exception
SendWhatsappResult(outcome) ==
    IF outcome.status = 0 THEN MockResult                     \* requests.post raised
    ELSE IF outcome.status # 200 THEN MockResult              \* the else branch
    ELSE IF ~outcome.body.json THEN MockResult                \* response.json() raised
    ELSE outcome.body

\* whatsapp_result.get("messages", [{}])[0].get("id", f"mock_..."): the
\* exceptions it can raise
IdLookupRaises(result) ==
    \/ ~result.object                                         \* AttributeError: no .get
    \/ result.has_messages /\ ~result.is_list                 \* TypeError / KeyError on [0]
    \/ result.has_messages /\ result.is_list /\ result.messages = <<>>   \* IndexError

\* ... and its value when it raises nothing
IdLookup(result) ==
    LET messages == IF result.has_messages THEN result.messages ELSE <<Entry(FALSE, NoId)>>
    IN IF messages[1].has_id THEN messages[1].id ELSE DefaultId

(* ------------------------------ submission ----------------------------- *)
\* {k: v for k, v in form_data.items() if k != "api_key"}
IsField(item) == item[1] # ApiKeyName
WithoutApiKey(items) == SelectSeq(items, IsField)

\* if name: form_data["name"] = name ...: the fixed fields that are set,
\* in the order of the handler's if statements
IsSet(item) == Truthy(item[2])
HtmlFormData(params) == SelectSeq(params, IsSet)

\* JSON bodies posted to /api/submit
ApiForms(key) == {<<<<FullName, "Ana">>, <<ApiKeyName, key>>, <<MessageName, "Hello">>, <<BudgetName, "">>>>}
ApiFormsNoKey == {<<<<MessageName, "Hello">>>>}

\* the optional form fields posted to /submit, in the order of the handler's
\* parameters
HtmlParams ==
    {<<<<NameName, "Ana">>, <<EmailName, NONE>>, <<PhoneName, NONE>>, <<MessageName, "Hello">>,
       <<BudgetName, "">>, <<CompanyName, NONE>>, <<SubjectName, NONE>>>>}

\* POST /api/submit with a JSON object
PostSubmitApi(r) ==
    /\ MayArrive(r)
    /\ \E p \in ProcsFor(r), f \in UNION {ApiForms(k) : k \in KeyChoices} \cup ApiFormsNoKey :
          req' = [req EXCEPT ![r] = [IdleReq EXCEPT !.kind = "submit_api", !.proc = p,
                                                    !.pc = "start", !.form_data = f]]
    /\ UNCHANGED <<store, loop, form_data, message>>

\* POST /submit with form fields; api_key is required by Form(...)
PostSubmitHtml(r) ==
    /\ MayArrive(r)
    /\ \E p \in ProcsFor(r), k \in KeyChoices, f \in HtmlParams :
          req' = [req EXCEPT ![r] = [IdleReq EXCEPT !.kind = "submit_html", !.proc = p,
                                                    !.pc = "start", !.api_key = k, !.form_data = f]]
    /\ UNCHANGED <<store, loop, form_data, message>>

\* send_whatsapp_message up to requests.post: the message is formatted and
\* the POST is issued; requests.post is synchronous, the event loop is kept
Dispatch(r, fields, items) ==
    Hold(r, [fields EXCEPT !.sent = TRUE, !.message = FormatMessage(items)], "post")

\* submit_form_api up to the provider call
SubmitFormApi(r) ==
    /\ req[r].kind = "submit_api" /\ req[r].pc = "start" /\ LoopFree(r)
    /\ LET api_key == Get(req[r].form_data, ApiKeyName, 1)
           user == FindActiveByApiKey(store, api_key)
           found == [req[r] EXCEPT !.api_key = api_key, !.user = user]
       IN IF ~Truthy(api_key) THEN Finish(r, [req[r] EXCEPT !.api_key = api_key], Resp(400))
          ELSE IF user = NoRow THEN Finish(r, found, Resp(401))
          ELSE Dispatch(r, found, WithoutApiKey(req[r].form_data))
    /\ UNCHANGED <<store, form_data, message>>

\* submit_form_html up to the provider call
SubmitFormHtml(r) ==
    /\ req[r].kind = "submit_html" /\ req[r].pc = "start" /\ LoopFree(r)
    /\ LET user == FindActiveByApiKey(store, req[r].api_key)
           found == [req[r] EXCEPT !.user = user]
       IN IF user = NoRow THEN Finish(r, found, Resp(401))
          ELSE Dispatch(r, found, HtmlFormData(req[r].form_data))
    /\ UNCHANGED <<store, form_data, message>>

\* the response of submit_form_api once send_whatsapp_message returned result
SubmitApiResponse(result) ==
    IF IdLookupRaises(result) THEN Resp(500)
    ELSE [Resp(200) EXCEPT !.whatsapp_message_id = IdLookup(result)]

\* the response of submit_form_html: the result is not looked at
SubmitHtmlResponse(result) == Resp(302)

\* requests.post comes back (or raises); send_whatsapp_message returns and
\* the handler builds its response
ProviderAnswers(r) ==
    /\ req[r].pc = "post"
    /\ \E o \in Outcomes :
          IF req[r].kind = "submit_api"
          THEN Finish(r, [req[r] EXCEPT !.outcome = o], SubmitApiResponse(SendWhatsappResult(o)))
          ELSE Finish(r, req[r], SubmitHtmlResponse(SendWhatsappResult(o)))
    /\ UNCHANGED <<store, form_data, message>>

\* the store fails in the lookup: except Exception answers 500 on both routes
SubmitLookupRaises(r) ==
    /\ req[r].kind \in {"submit_api", "submit_html"} /\ req[r].pc = "start" /\ LoopFree(r)
    /\ LET api_key == IF req[r].kind = "submit_api" THEN Get(req[r].form_data, ApiKeyName, 1)
                      ELSE req[r].api_key
       IN IF ~Truthy(api_key) THEN Finish(r, [req[r] EXCEPT !.api_key = api_key], Resp(400))
          ELSE Finish(r, [req[r] EXCEPT !.api_key = api_key], Resp(500))
    /\ UNCHANGED <<store, form_data, message>>

(* ---------------------------- specifications --------------------------- *)
\* the table at start-up: empty, or holding an account of an earlier run,
\* active or deactivated by an administrator
InitStores == {{}} \cup {{Row(1, "Old", EmailOf(1), KeyOf(1), active)} : active \in BOOLEAN}

Init ==
    /\ store \in InitStores
    /\ req = [r \in Reqs |-> IdleReq]
    /\ loop = [p \in Procs |-> 0]
    /\ form_data = <<>>
    /\ message = NoMessage

Next ==
    \E r \in Reqs :
        \/ PostRegister(r)
        \/ PostSubmitApi(r)
        \/ PostSubmitHtml(r)
        \/ RegisterCheck(r)
        \/ RegisterCommit(r)
        \/ RegisterRefresh(r)
        \/ RegisterNotified(r)
        \/ SubmitFormApi(r)
        \/ SubmitFormHtml(r)
        \/ ProviderAnswers(r)

StoreFails ==
    \E r \in Reqs :
        \/ RegisterCheckRaises(r)
        \/ RegisterCommitRaises(r)
        \/ RegisterRefreshRaises(r)
        \/ SubmitLookupRaises(r)

\* the store answers every call
Spec == Init /\ [][Next]_vars

\* the store may fail in any call
NextWithFaults == Next \/ StoreFails
FaultSpec == Init /\ [][NextWithFaults]_vars

\* The handlers' own steps are taken once they can be: the server schedules
\* every ready coroutine, and the SQLAlchemy calls and the SMTP exchange
\* (aiosmtplib's default timeout) return.  Nothing makes the provider answer:
\* requests.post is called without a timeout.
HandlerSteps(r) ==
    \/ RegisterCheck(r)
    \/ RegisterCommit(r)
    \/ RegisterRefresh(r)
    \/ RegisterNotified(r)
    \/ SubmitFormApi(r)
    \/ SubmitFormHtml(r)

FairSpec == Init /\ [][Next]_vars /\ \A r \in Reqs : WF_vars(HandlerSteps(r))

(* ------------------------ the formatter on its own ---------------------- *)
Alphabet == {"a", "B", "_"}
Values == {"", "Hello"}
FieldNames == UNION {[1..n -> Alphabet] : n \in 1..MaxNameLen} \cup {ApiKeyName}
Items == FieldNames \X Values
\* dicts: keys are distinct
Mappings ==
    {m \in UNION {[1..n -> Items] : n \in 0..MaxFields} :
        \A i, j \in 1..Len(m) : i # j => m[i][1] # m[j][1]}

FormatInit ==
    /\ form_data \in Mappings
    /\ message = NoMessage
    /\ store = {}
    /\ req = [r \in Reqs |-> IdleReq]
    /\ loop = [p \in Procs |-> 0]

\* the formatting loop of send_whatsapp_message, run on form_data
Format ==
    /\ message = NoMessage
    /\ message' = FormatMessage(form_data)
    /\ UNCHANGED <<store, req, loop, form_data>>

\* ... and run once more on the same form_data
FormatAgain ==
    /\ message # NoMessage
    /\ message' = FormatMessage(form_data)
    /\ UNCHANGED <<store, req, loop, form_data>>

FormatNext == Format \/ FormatAgain
FormatSpec == FormatInit /\ [][FormatNext]_vars

(* ------------------------------ properties ---------------------------- *)
IsRegister(r) == req[r].kind = "register"
IsSubmit(r) == req[r].kind \in {"submit_api", "submit_html"}
Done(r) == req[r].pc = "done"
\* the handler of the submission has run up to its provider call or its response
Handled(r) == IsSubmit(r) /\ req[r].pc \in {"post", "done"}
NoActiveAccount(key) == ~\E a \in store : a.api_key = key /\ a.is_active
InactiveAccount(key) == \E a \in store : a.api_key = key /\ ~a.is_active
\* the request's INSERT reached the table
Created(r) == IsRegister(r) /\ req[r].row_id # 0
\* the registration passed the e-mail existence check (a key is generated only then)
PassedCheck(r) == IsRegister(r) /\ req[r].api_key # ""

\* C1: on both routes, a submission whose API key matches no account, or only
\* an inactive one, is answered 401 and the dispatcher is never invoked for it.
C1_BadKeyUnauthorizedNoDispatch ==
    \A r \in Reqs :
        Handled(r) /\ Truthy(req[r].api_key) /\ NoActiveAccount(req[r].api_key) =>
            /\ ~req[r].sent
            /\ Done(r)
            /\ req[r].resp.status = 401

\* C1 witness: an API submission and an HTML submission, both with the key of
\* a deactivated account, both answered 401 without a dispatch.
C1_Witness ==
    \E r1, r2 \in Reqs :
        /\ req[r1].kind = "submit_api" /\ req[r2].kind = "submit_html"
        /\ \A r \in {r1, r2} :
              /\ Done(r) /\ InactiveAccount(req[r].api_key)
              /\ req[r].resp.status = 401 /\ ~req[r].sent

\* C2: no two accounts share an e-mail or an API key, and of two registrations
\* with the same e-mail or the same generated key at most one creates an account.
C2_UniqueEmailAndKey ==
    /\ \A a, b \in store : a # b => a.email # b.email /\ a.api_key # b.api_key /\ a.id # b.id
    /\ \A r1, r2 \in Reqs :
          /\ r1 # r2 /\ PassedCheck(r1) /\ PassedCheck(r2)
          /\ req[r1].email = req[r2].email \/ req[r1].api_key = req[r2].api_key
          => ~(Created(r1) /\ Created(r2)) /\ ~(req[r1].resp.status = 200 /\ req[r2].resp.status = 200)

\* C2 witness: two registrations with the same e-mail and different keys both
\* passed the existence check; one created the account, the other was refused
\* by the store.
C2_Witness ==
    \E r1, r2 \in Reqs :
        /\ r1 # r2 /\ PassedCheck(r1) /\ PassedCheck(r2)
        /\ req[r1].email = req[r2].email /\ req[r1].api_key # req[r2].api_key
        /\ Created(r1) /\ Done(r2) /\ ~Created(r2)
        /\ Cardinality({a \in store : a.email = req[r1].email}) = 1

\* C3 (as claimed): of two registrations with the same e-mail, the one that
\* does not create the account is answered 400 (Conflict), and the store holds
\* exactly one account for that e-mail.
C3_SecondAttemptConflict ==
    \A r1, r2 \in Reqs :
        r1 # r2 /\ IsRegister(r1) /\ IsRegister(r2) /\ req[r1].email = req[r2].email
        /\ Created(r1) /\ Done(r2) /\ ~Created(r2)
        => /\ req[r2].resp.status = 400
           /\ Cardinality({a \in store : a.email = req[r1].email}) = 1

\* C4 (as claimed): every registration with an e-mail that was fresh when the
\* handler checked it is answered with success.
C4_FreshEmailAlwaysSucceeds ==
    \A r \in Reqs : PassedCheck(r) /\ Done(r) => req[r].resp.status = 200

\* the persistence step (add, commit, refresh) of the registration succeeded
Persisted(r) == IsRegister(r) /\ (req[r].pc = "notify" \/ (Done(r) /\ req[r].emailed # ""))

\* C4 (amended): every registration whose persistence step succeeded is
\* answered, whether the notification was sent or failed, with success
\* carrying the id, name and e-mail of its account, and from the commit on the
\* active-key lookup of its generated key finds that account, active.
C4_PersistedRegistrationSucceeds ==
    \A r \in Reqs :
        Persisted(r) =>
            \E a \in store :
                /\ a.id = req[r].row_id /\ a.email = req[r].email /\ a.api_key = req[r].api_key
                /\ a.is_active
                /\ FindActiveByApiKey(store, req[r].api_key) = a
                /\ Done(r) => req[r].resp = [Resp(200) EXCEPT !.user = [id |-> a.id, name |-> a.name, email |-> a.email]]

\* C4 witness: a registration whose notification failed was answered with
\* success, and a submission with its key was authenticated and dispatched.
C4_Witness ==
    \E r, s \in Reqs :
        /\ IsRegister(r) /\ Done(r) /\ req[r].emailed = "failed" /\ req[r].resp.status = 200
        /\ req[r].resp.user.id = req[r].row_id
        /\ IsSubmit(s) /\ req[s].api_key = req[r].api_key /\ req[s].sent

\* C5 (as claimed): a submission with a non-empty API key ends in 401 or in
\* success (200 on /api/submit, the 302 redirect on /submit), never in a
\* server error.
C5_OnlyUnauthorizedOrSuccess ==
    \A r \in Reqs :
        IsSubmit(r) /\ Done(r) /\ Truthy(req[r].api_key) => req[r].resp.status \in {401, 200, 302}

\* the provider's 200 body carries a message identifier at messages[0].id
CarriesId(body) ==
    /\ body.json /\ body.object /\ body.has_messages /\ body.is_list
    /\ body.messages # <<>>
    /\ body.messages[1].has_id

\* an authenticated /api/submit request whose provider call has come back
Dispatched(r) == req[r].kind = "submit_api" /\ Done(r) /\ req[r].sent

\* on a non-200 status or a transport failure: success with a mock identifier
DegradesToMock(r) ==
    req[r].outcome.status # 200 =>
        /\ req[r].resp.status = 200
        /\ req[r].resp.whatsapp_message_id.prefix = "wamid.mock_"

\* C6 (as claimed): ... and on 200 the identifier returned is the provider's own.
C6_MockOnFailureProviderIdOn200 ==
    \A r \in Reqs :
        Dispatched(r) =>
            /\ DegradesToMock(r)
            /\ req[r].outcome.status = 200 =>
                  /\ req[r].resp.status = 200
                  /\ CarriesId(req[r].outcome.body)
                  /\ req[r].resp.whatsapp_message_id = req[r].outcome.body.messages[1].id

\* C6 (amended): ... and on 200 with a body that carries messages[0].id, the
\* identifier returned is that identifier.
C6_MockOnFailureProviderIdWhenCarried ==
    \A r \in Reqs :
        Dispatched(r) =>
            /\ DegradesToMock(r)
            /\ req[r].outcome.status = 200 /\ CarriesId(req[r].outcome.body) =>
                  /\ req[r].resp.status = 200
                  /\ req[r].resp.whatsapp_message_id = req[r].outcome.body.messages[1].id

\* C6 witness: one submission answered by the provider with 503 got a mock
\* identifier, another answered with 200 got the provider's identifier.
C6_Witness ==
    \E r1, r2 \in Reqs :
        /\ Dispatched(r1) /\ req[r1].outcome.status = 503
        /\ req[r1].resp.status = 200 /\ req[r1].resp.whatsapp_message_id = MockId
        /\ Dispatched(r2) /\ req[r2].outcome.status = 200
        /\ req[r2].resp.status = 200 /\ req[r2].resp.whatsapp_message_id = ProviderId

\* C7 (as claimed): every submission waiting for the provider is eventually
\* answered, whether or not the provider ever answers.
C7_SubmissionEventuallyAnswered ==
    \A r \in Reqs : (req[r].pc = "post") ~> (req[r].pc = "done")

\* C8 (as claimed): a registration answered 500 leaves no account of its own
\* in the store.
C8_ServerErrorLeavesNoAccount ==
    \A r \in Reqs :
        IsRegister(r) /\ Done(r) /\ req[r].resp.status = 500 =>
            ~\E a \in store : a.id = req[r].row_id

\* the fields the formatter has to emit, by position in the input
Kept(items) == {i \in 1..Len(items) : items[i][1] # ApiKeyName /\ items[i][2] # ""}
\* the position in the input of the j-th kept field
KeptAt(items, j) == CHOOSE i \in Kept(items) : Cardinality({k \in Kept(items) : k < i}) = j - 1
\* label is key with underscores as spaces and every word capitalised: a
\* letter that starts a word is upper case, a letter inside a word lower case
IsLabelOf(label, key) ==
    /\ Len(label) = Len(key)
    /\ \A p \in 1..Len(key) :
          label[p] = IF key[p] = "_" THEN " "
                     ELSE IF p > 1 /\ IsCased(key[p - 1]) THEN Lower(key[p])
                     ELSE Upper(key[p])

\* C9: the message is the header, one line for each field other than api_key
\* with a non-empty value (none omitted, none added), in the order of the
\* input, labelled with the title-cased field name, then the footer.
C9_MessageHasExactlyTheNonEmptyFieldsInOrder ==
    message # NoMessage =>
        /\ message.header = Header
        /\ message.footer = Footer
        /\ Len(message.lines) = Cardinality(Kept(form_data))
        /\ \A j \in 1..Len(message.lines) :
              /\ message.lines[j].value = form_data[KeptAt(form_data, j)][2]
              /\ IsLabelOf(message.lines[j].label, form_data[KeptAt(form_data, j)][1])

\* C9 witness: an input whose first field is skipped (empty) and whose second
\* field, a name with an underscore and a capital inside a word, is emitted.
C9_Witness ==
    /\ message # NoMessage
    /\ Len(form_data) = 2 /\ form_data[1][2] = "" /\ form_data[2][2] # ""
    /\ Len(message.lines) = 1
    /\ \E p \in 1..Len(form_data[2][1]) : message.lines[1].label[p] # form_data[2][1][p]

\* request b carries an API key and its handler has not yet looked it up
AwaitsLookup(b) == IsSubmit(b) /\ req[b].pc = "start" /\ Truthy(PostedKey(b))
\* the lookup of request b can run now
CanLookUp(b) == ENABLED (SubmitFormApi(b) \/ SubmitFormHtml(b))

\* C10 (as claimed): while a request waits on its provider call or on the
\* notification channel, the API-key lookup of any other request can proceed.
C10_LookupNeverBlocked ==
    \A a, b \in Reqs :
        a # b /\ req[a].pc \in {"post", "notify"} /\ AwaitsLookup(b)
        => CanLookUp(b)

====
